---- MODULE Spec2Model ----
(***************************************************************************)
(* Gitify: a terminal menu that drives git.  The model follows the second  *)
(* definition of the program in src/main.go (lines 235-541): the model     *)
(* value (menuIndex, output), model.Update, handleGitAction,               *)
(* executeGitCommand and getUnstagedFiles.                                 *)
(*                                                                         *)
(* Texts are strings.  git and the form library are the environment: every *)
(* invocation of git yields an (err, out) pair chosen from small sets, and *)
(* every form.Run() either fails (the user aborts) or binds values chosen  *)
(* from small sets.  A dispatch started by Enter blocks on git and on the   *)
(* forms, so it is a chain of steps driven by pc; no key is handled until  *)
(* pc is back to "idle".                                                   *)
(***************************************************************************)
EXTENDS Integers, Sequences, FiniteSets, TLC

VARIABLES
    menuIndex,        \* model.menuIndex
    output,           \* model.output
    quit,             \* Update has returned tea.Quit
    lastKey,          \* the key of the last tea.KeyMsg handled ("" before any)
    pc,               \* position inside handleGitAction, "idle" outside it
    action,           \* the argument of the running / last handleGitAction
    cmds,             \* argument lists of the git invocations of that dispatch
    forms,            \* number of form.Run() calls of that dispatch
    formRun,          \* "none", "completed" or "cancelled"
    cmdsAtCancel,     \* Len(cmds) when form.Run() returned an error, else -1
    errs,             \* err of each of these invocations (Nil: exit status 0)
    outs,             \* text captured from each of these invocations
    remoteName, remoteURL, addResult,                 \* Add Remote locals
    files, selectedOptions,                           \* Stage Changes locals
    commitMessage,                                    \* Commit Changes local
    currentBranch, remotes, selectedRemote,           \* Push to Remote locals
    branchName, setUpstream, result,
    typedBranch       \* the text the Branch input of the push form bound

vars == <<menuIndex, output, quit, lastKey, pc, action, cmds, forms, formRun,
          cmdsAtCancel, errs, outs, remoteName, remoteURL, addResult,
          files, selectedOptions, commitMessage, currentBranch, remotes,
          selectedRemote, branchName, setUpstream, result, typedBranch>>

locals == <<remoteName, remoteURL, addResult, files, selectedOptions,
            commitMessage, currentBranch, remotes, selectedRemote,
            branchName, setUpstream, result>>

-----------------------------------------------------------------------------
(* Bounds and input sets of the environment.                               *)

MaxStatusLines == 2      \* lines of a status output in Spec
MaxStatusLen == 9        \* characters of a status output in ParseSpec

Nil == "<nil>"           \* err == nil

\* err.Error() of an invocation that exited non-zero, and of one that could
\* not be launched (nothing is captured then).
ExitError == "exit status 1"
LaunchError == "exec: \"git\": executable file not found in $PATH"

\* Captured text of an invocation.
GitOutputs == {"", "ok\n", "fatal: no\n", "error: no\n"}

\* Captured text of `git remote`.
RemoteOutputs == {"", "origin\n", "origin\nfork\n"}

\* Lines of `git status --porcelain`.
StatusLines == {" M a", " M select_all", "?? deselect_all"}

\* Characters of the status outputs of ParseSpec.
StatusChars == {"a", "b", "\n"}

\* Values a user types into a text field.
NameInputs == {"", "origin"}
URLInputs == {"", "u"}
MessageInputs == {"", "msg"}
BranchInputs == {"", "dev"}

-----------------------------------------------------------------------------
(* strings.* helpers, computed on the characters.                          *)

\* strings.Contains(s, substr)
Contains(s, substr) ==
    \E i \in 1..(Len(s) - Len(substr) + 1) :
        SubSeq(s, i, i + Len(substr) - 1) = substr

\* s starts with prefix (used to read the result messages)
HasPrefix(s, prefix) ==
    /\ Len(s) >= Len(prefix)
    /\ SubSeq(s, 1, Len(prefix)) = prefix

IsSpace(c) == c \in {" ", "\n", "\t", "\r"}

RECURSIVE TrimLeft(_)
TrimLeft(s) ==
    IF Len(s) > 0 /\ IsSpace(SubSeq(s, 1, 1))
    THEN TrimLeft(SubSeq(s, 2, Len(s)))
    ELSE s

RECURSIVE TrimRight(_)
TrimRight(s) ==
    IF Len(s) > 0 /\ IsSpace(SubSeq(s, Len(s), Len(s)))
    THEN TrimRight(SubSeq(s, 1, Len(s) - 1))
    ELSE s

\* strings.TrimSpace(s)
TrimSpace(s) == TrimRight(TrimLeft(s))

\* strings.Split(s, "\n"): the pieces between the newlines, "" included.
RECURSIVE Split(_)
Split(s) ==
    IF \E i \in 1..Len(s) : SubSeq(s, i, i) = "\n"
    THEN LET i == CHOOSE k \in 1..Len(s) :
                     /\ SubSeq(s, k, k) = "\n"
                     /\ \A j \in 1..(k - 1) : SubSeq(s, j, j) # "\n"
         IN  <<SubSeq(s, 1, i - 1)>> \o Split(SubSeq(s, i + 1, Len(s)))
    ELSE <<s>>

-----------------------------------------------------------------------------
menuOptions ==
    <<"Initialize Repository", "Add Remote", "Stage Changes",
      "Commit Changes", "Push to Remote", "Pull from Remote", "Show Status",
      "Show Branch", "Show Log", "Merge Branch", "View Diff">>

\* executeGitCommand: the text it returns for an invocation that ended with
\* err and captured out (fmt.Sprintf("Error: %s\n%s", err, out)).
executeGitCommand(err, out) ==
    IF err # Nil THEN "Error: " \o err \o "\n" \o out ELSE out

\* getUnstagedFiles: err and stdout of `git status --porcelain`.
\* Mutant: a line of exactly three characters is kept too.
KeepLine_AtLeastThree(line) == Len(line) >= 3

KeepLine(line) == Len(line) > 3
PathOf(line) == SubSeq(line, 4, Len(line))

RECURSIVE ParseLines(_)
ParseLines(lines) ==
    IF lines = <<>> THEN <<>>
    ELSE (IF KeepLine(Head(lines)) THEN <<PathOf(Head(lines))>> ELSE <<>>)
         \o ParseLines(Tail(lines))

getUnstagedFiles(err, out) ==
    IF err # Nil THEN <<"Error fetching status">>
    ELSE ParseLines(Split(out))

-----------------------------------------------------------------------------
(* Pieces of handleGitAction.                                              *)

\* Mutant: the error of form.Run() is ignored.
FormOk_Ignored(formErr) == TRUE

\* `if err := form.Run(); err == nil`
FormOk(formErr) == formErr = Nil

\* What handleGitAction returns when form.Run() returned an error: Commit
\* Changes returns at once; the other cases leave the switch and reach the
\* final return.
CancelText(act) ==
    IF act = "Commit Changes" THEN "Error: Failed to run form"
    ELSE "Unknown action."

\* Mutant: && instead of ||.
EmptyField_Both(name, url) == name = "" /\ url = ""

\* `remoteName == "" || remoteURL == ""`
EmptyField(name, url) == name = "" \/ url = ""

\* Mutant: only "fatal" is looked for.
HasMarker_OnlyFatal(text) == Contains(text, "fatal")

\* Mutant: only "error" is looked for.
HasMarker_OnlyError(text) == Contains(text, "error")

\* `strings.Contains(x, "error") || strings.Contains(x, "fatal")`
HasMarker(text) == Contains(text, "error") \/ Contains(text, "fatal")

\* Mutant: the test for the empty branch name is missing.
BranchFailed_OnlyFatal(branch) == Contains(branch, "fatal")

\* `currentBranch == "" || strings.Contains(currentBranch, "fatal")`
BranchFailed(branch) == branch = "" \/ Contains(branch, "fatal")

\* Mutant: the loop has no "deselect_all" branch.
RECURSIVE FirstPseudo_NoDeselect(_)
FirstPseudo_NoDeselect(sel) ==
    IF sel = <<>> THEN "none"
    ELSE IF Head(sel) = "select_all" THEN "select_all"
    ELSE FirstPseudo_NoDeselect(Tail(sel))

\* The loop over selectedOptions: the first pseudo-option met decides.
RECURSIVE FirstPseudo(_)
FirstPseudo(sel) ==
    IF sel = <<>> THEN "none"
    ELSE IF Head(sel) = "select_all" THEN "select_all"
    ELSE IF Head(sel) = "deselect_all" THEN "deselect_all"
    ELSE FirstPseudo(Tail(sel))

\* Mutant: "select_all" stages the selection, not the candidates.
StagePaths_Selection(fs, sel) == sel

\* The paths handed to `git add` once the loop has not returned "No files
\* staged.".
StagePaths(fs, sel) ==
    IF FirstPseudo(sel) = "select_all" THEN fs ELSE sel

\* Mutant: --set-upstream is always passed.
PushArgs_AlwaysUpstream(upstream, remote, branch) ==
    <<"push", "--set-upstream", remote, branch>>

\* The argument list of the push invocation.
PushArgs(upstream, remote, branch) ==
    <<"push">> \o (IF upstream THEN <<"--set-upstream">> ELSE <<>>)
               \o <<remote, branch>>

\* `if branchName == "" { branchName = currentBranch }`
TargetBranch(typed, current) == IF typed = "" THEN current ELSE typed

\* Mutant: the typed message is dropped for a fixed one.
CommitArgs_Fixed(msg) == <<"commit", "-am", "Commit from Gitify">>

\* The argument list of the commit invocation.
CommitArgs(msg) == <<"commit", "-am", msg>>

\* Mutant: the test for an empty remote listing is missing.
NoRemotes_Never(text) == FALSE

\* `remotesOutput == ""`
NoRemotes(text) == text = ""

\* Mutant: Show Log without --oneline.
FixedArgs_PlainLog(act) ==
    CASE act = "Initialize Repository" -> <<"init">>
      [] act = "Pull from Remote"      -> <<"pull">>
      [] act = "Show Status"           -> <<"status">>
      [] act = "Show Branch"           -> <<"branch">>
      [] act = "Show Log"              -> <<"log">>
      [] act = "Merge Branch"          -> <<"merge", "main">>
      [] act = "View Diff"             -> <<"diff">>

\* The fixed argument lists of the cases without input.
FixedArgs(act) ==
    CASE act = "Initialize Repository" -> <<"init">>
      [] act = "Pull from Remote"      -> <<"pull">>
      [] act = "Show Status"           -> <<"status">>
      [] act = "Show Branch"           -> <<"branch">>
      [] act = "Show Log"              -> <<"log", "--oneline">>
      [] act = "Merge Branch"          -> <<"merge", "main">>
      [] act = "View Diff"             -> <<"diff">>

\* The first blocking point of each case of the switch.
EntryPoint(act) ==
    CASE act = "Add Remote"     -> "AddRemoteForm"
      [] act = "Stage Changes"  -> "StageStatus"
      [] act = "Commit Changes" -> "CommitForm"
      [] act = "Push to Remote" -> "PushBranch"
      [] OTHER                  -> "Fixed"

-----------------------------------------------------------------------------
(* What the environment can answer.                                        *)

\* The order-preserving sub-sequences of s: what a multi-select binds.
RECURSIVE Pick(_, _, _)
Pick(s, I, k) ==
    IF k > Len(s) THEN <<>>
    ELSE (IF k \in I THEN <<s[k]>> ELSE <<>>) \o Pick(s, I, k + 1)

Selections(s) == {Pick(s, I, 1) : I \in SUBSET (1..Len(s))}

\* Status outputs of at most n distinct lines, each ended by a newline.
RECURSIVE StatusTexts(_)
StatusTexts(n) ==
    IF n = 0 THEN {<<>>}
    ELSE LET S == StatusTexts(n - 1)
         IN  S \cup {Append(ls, l) : ls \in S, l \in StatusLines}

Distinct(ls) == \A i, j \in 1..Len(ls) : i # j => ls[i] # ls[j]

RECURSIVE Lines(_)
Lines(ls) == IF ls = <<>> THEN "" ELSE Head(ls) \o "\n" \o Lines(Tail(ls))

StatusOutputs == {Lines(ls) : ls \in {t \in StatusTexts(MaxStatusLines) : Distinct(t)}}

\* (err, out) of an invocation whose captured text is drawn from texts.
Results(texts) == ({Nil, ExitError} \X texts) \cup {<<LaunchError, "">>}

GitResults == Results(GitOutputs)

-----------------------------------------------------------------------------
Init ==
    /\ menuIndex = 0
    /\ output = ""
    /\ quit = FALSE
    /\ lastKey = ""
    /\ pc = "idle"
    /\ action = ""
    /\ cmds = <<>>
    /\ forms = 0
    /\ formRun = "none"
    /\ cmdsAtCancel = -1
    /\ errs = <<>>
    /\ outs = <<>>
    /\ remoteName = ""
    /\ remoteURL = ""
    /\ addResult = ""
    /\ files = <<>>
    /\ selectedOptions = <<>>
    /\ commitMessage = ""
    /\ currentBranch = ""
    /\ remotes = <<>>
    /\ selectedRemote = ""
    /\ branchName = ""
    /\ setUpstream = FALSE
    /\ result = ""
    /\ typedBranch = ""

dispatchVars == <<action, cmds, forms, formRun, cmdsAtCancel, errs, outs,
                  typedBranch>>

Accepting == pc = "idle" /\ ~quit

\* One git invocation of the running dispatch.
Invoke(args, err, out) ==
    /\ cmds' = Append(cmds, args)
    /\ errs' = Append(errs, err)
    /\ outs' = Append(outs, out)

\* handleGitAction returns text; Update stores it and returns.
Return(text) ==
    /\ output' = text
    /\ pc' = "idle"

\* form.Run() returned formErr.
Ran(formErr) ==
    /\ forms' = forms + 1
    /\ formRun' = IF formErr = Nil THEN "completed" ELSE "cancelled"
    /\ cmdsAtCancel' = IF formErr = Nil THEN -1 ELSE Len(cmds)

FormErrors == {Nil, "user aborted"}

-----------------------------------------------------------------------------
(* model.Update                                                            *)

KeyQ ==
    /\ Accepting
    /\ quit' = TRUE
    /\ lastKey' = "q"
    /\ UNCHANGED <<menuIndex, output, pc, dispatchVars, locals>>

\* Mutant: "up" without the test for the first entry.
KeyUp_NoGuard ==
    /\ Accepting
    /\ menuIndex' = menuIndex - 1
    /\ lastKey' = "up"
    /\ UNCHANGED <<output, quit, pc, dispatchVars, locals>>

KeyUp ==
    /\ Accepting
    /\ menuIndex' = IF menuIndex > 0 THEN menuIndex - 1 ELSE menuIndex
    /\ lastKey' = "up"
    /\ UNCHANGED <<output, quit, pc, dispatchVars, locals>>

\* Mutant: "down" also clears the displayed output.
KeyDown_ClearsOutput ==
    /\ Accepting
    /\ menuIndex' = IF menuIndex < Len(menuOptions) - 1 THEN menuIndex + 1
                    ELSE menuIndex
    /\ lastKey' = "down"
    /\ output' = ""
    /\ UNCHANGED <<quit, pc, dispatchVars, locals>>

KeyDown ==
    /\ Accepting
    /\ menuIndex' = IF menuIndex < Len(menuOptions) - 1 THEN menuIndex + 1
                    ELSE menuIndex
    /\ lastKey' = "down"
    /\ UNCHANGED <<output, quit, pc, dispatchVars, locals>>

\* Mutant: any other key quits too.
KeyOther_Quits ==
    /\ Accepting
    /\ quit' = TRUE
    /\ lastKey' = "other"
    /\ UNCHANGED <<menuIndex, output, pc, dispatchVars, locals>>

\* Any other key: no case of the switch matches.
KeyOther ==
    /\ Accepting
    /\ lastKey' = "other"
    /\ UNCHANGED <<menuIndex, output, quit, pc, dispatchVars, locals>>

\* "enter": handleGitAction(menuOptions[m.menuIndex]) starts.
KeyEnter ==
    /\ Accepting
    /\ lastKey' = "enter"
    /\ action' = menuOptions[menuIndex + 1]
    /\ pc' = EntryPoint(action')
    /\ cmds' = <<>>
    /\ forms' = 0
    /\ formRun' = "none"
    /\ cmdsAtCancel' = -1
    /\ errs' = <<>>
    /\ outs' = <<>>
    /\ remoteName' = ""
    /\ remoteURL' = ""
    /\ addResult' = ""
    /\ files' = <<>>
    /\ selectedOptions' = <<>>
    /\ commitMessage' = ""
    /\ currentBranch' = ""
    /\ remotes' = <<>>
    /\ selectedRemote' = ""
    /\ branchName' = ""
    /\ setUpstream' = FALSE
    /\ result' = ""
    /\ typedBranch' = ""
    /\ UNCHANGED <<menuIndex, output, quit>>

-----------------------------------------------------------------------------
(* handleGitAction, one step per blocking call.                            *)

\* The cases that only run one fixed command and return its text.
Fixed ==
    /\ pc = "Fixed"
    /\ UNCHANGED typedBranch
    /\ \E r \in GitResults :
        /\ Invoke(FixedArgs(action), r[1], r[2])
        /\ Return(executeGitCommand(r[1], r[2]))
    /\ UNCHANGED <<menuIndex, quit, lastKey, action, forms, formRun,
                   cmdsAtCancel, locals>>

\* Add Remote: the form with the two inputs, then the emptiness test.
AddRemoteForm ==
    /\ pc = "AddRemoteForm"
    /\ UNCHANGED typedBranch
    /\ \E formErr \in FormErrors, name \in NameInputs, url \in URLInputs :
        /\ Ran(formErr)
        /\ IF FormOk(formErr)
           THEN /\ remoteName' = name
                /\ remoteURL' = url
                /\ IF EmptyField(name, url)
                   THEN Return("Remote name and URL cannot be empty.")
                   ELSE pc' = "AddRemoteAdd" /\ output' = output
           ELSE /\ UNCHANGED <<remoteName, remoteURL>>
                /\ Return(CancelText(action))
    /\ UNCHANGED <<menuIndex, quit, lastKey, action, cmds, errs, outs,
                   addResult, files, selectedOptions, commitMessage,
                   currentBranch, remotes, selectedRemote, branchName,
                   setUpstream, result>>

\* Add Remote: `git remote add` and the classification of its text.
AddRemoteAdd ==
    /\ pc = "AddRemoteAdd"
    /\ UNCHANGED typedBranch
    /\ \E r \in GitResults :
        /\ Invoke(<<"remote", "add", remoteName, remoteURL>>, r[1], r[2])
        /\ addResult' = executeGitCommand(r[1], r[2])
        /\ IF HasMarker(addResult')
           THEN Return("Failed to add remote: " \o addResult')
           ELSE pc' = "AddRemoteList" /\ output' = output
    /\ UNCHANGED <<menuIndex, quit, lastKey, action, forms, formRun,
                   cmdsAtCancel, remoteName, remoteURL, files,
                   selectedOptions, commitMessage, currentBranch, remotes,
                   selectedRemote, branchName, setUpstream, result>>

\* Add Remote: `git remote -v` and the success message.
AddRemoteList ==
    /\ pc = "AddRemoteList"
    /\ UNCHANGED typedBranch
    /\ \E r \in Results(RemoteOutputs) :
        /\ Invoke(<<"remote", "-v">>, r[1], r[2])
        /\ Return("Remote added successfully: " \o remoteName \o " -> "
                  \o remoteURL \o "\n\nAll remotes:\n"
                  \o executeGitCommand(r[1], r[2]))
    /\ UNCHANGED <<menuIndex, quit, lastKey, action, forms, formRun,
                   cmdsAtCancel, locals>>

\* Stage Changes: getUnstagedFiles and the test for no files.
StageStatus ==
    /\ pc = "StageStatus"
    /\ UNCHANGED typedBranch
    /\ \E r \in Results(StatusOutputs) :
        /\ Invoke(<<"status", "--porcelain">>, r[1], r[2])
        /\ files' = getUnstagedFiles(r[1], r[2])
        /\ IF Len(files') = 0
           THEN Return("No unstaged changes found.")
           ELSE pc' = "StageForm" /\ output' = output
    /\ UNCHANGED <<menuIndex, quit, lastKey, action, forms, formRun,
                   cmdsAtCancel, remoteName, remoteURL, addResult,
                   selectedOptions, commitMessage, currentBranch, remotes,
                   selectedRemote, branchName, setUpstream, result>>

\* Stage Changes: the multi-select over the files and the loop over the
\* selection.
StageForm ==
    /\ pc = "StageForm"
    /\ UNCHANGED typedBranch
    /\ \E formErr \in FormErrors, sel \in Selections(files) :
        /\ Ran(formErr)
        /\ IF FormOk(formErr)
           THEN /\ selectedOptions' = sel
                /\ IF Len(sel) = 0
                   THEN Return("No files selected.")
                   ELSE IF FirstPseudo(sel) = "deselect_all"
                   THEN Return("No files staged.")
                   ELSE pc' = "StageAdd" /\ output' = output
           ELSE /\ UNCHANGED selectedOptions
                /\ Return(CancelText(action))
    /\ UNCHANGED <<menuIndex, quit, lastKey, action, cmds, errs, outs,
                   remoteName, remoteURL, addResult, files, commitMessage,
                   currentBranch, remotes, selectedRemote, branchName,
                   setUpstream, result>>

\* Stage Changes: `git add` with the resolved paths.
StageAdd ==
    /\ pc = "StageAdd"
    /\ UNCHANGED typedBranch
    /\ \E r \in GitResults :
        /\ Invoke(<<"add">> \o StagePaths(files, selectedOptions), r[1], r[2])
        /\ Return(executeGitCommand(r[1], r[2]))
    /\ UNCHANGED <<menuIndex, quit, lastKey, action, forms, formRun,
                   cmdsAtCancel, locals>>

\* Commit Changes: the form with the message input (inputField.GetValue()
\* of an input is a string, so the type assertion holds).
CommitForm ==
    /\ pc = "CommitForm"
    /\ UNCHANGED typedBranch
    /\ \E formErr \in FormErrors, msg \in MessageInputs :
        /\ Ran(formErr)
        /\ IF FormOk(formErr)
           THEN /\ commitMessage' = msg
                /\ pc' = "CommitExec"
                /\ output' = output
           ELSE /\ UNCHANGED commitMessage
                /\ Return(CancelText(action))
    /\ UNCHANGED <<menuIndex, quit, lastKey, action, cmds, errs, outs,
                   remoteName, remoteURL, addResult, files, selectedOptions,
                   currentBranch, remotes, selectedRemote, branchName,
                   setUpstream, result>>

\* Commit Changes: `git commit -am <message>`.
CommitExec ==
    /\ pc = "CommitExec"
    /\ UNCHANGED typedBranch
    /\ \E r \in GitResults :
        /\ Invoke(CommitArgs(commitMessage), r[1], r[2])
        /\ Return(executeGitCommand(r[1], r[2]))
    /\ UNCHANGED <<menuIndex, quit, lastKey, action, forms, formRun,
                   cmdsAtCancel, locals>>

\* Push to Remote: the branch query.
PushBranch ==
    /\ pc = "PushBranch"
    /\ UNCHANGED typedBranch
    /\ \E r \in GitResults :
        /\ Invoke(<<"rev-parse", "--abbrev-ref", "HEAD">>, r[1], r[2])
        /\ currentBranch' = TrimSpace(executeGitCommand(r[1], r[2]))
        /\ IF BranchFailed(currentBranch')
           THEN Return("Failed to get current branch.")
           ELSE pc' = "PushRemotes" /\ output' = output
    /\ UNCHANGED <<menuIndex, quit, lastKey, action, forms, formRun,
                   cmdsAtCancel, remoteName, remoteURL, addResult, files,
                   selectedOptions, commitMessage, remotes, selectedRemote,
                   branchName, setUpstream, result>>

\* Push to Remote: the remote listing.
PushRemotes ==
    /\ pc = "PushRemotes"
    /\ UNCHANGED typedBranch
    /\ \E r \in Results(RemoteOutputs) :
        /\ Invoke(<<"remote">>, r[1], r[2])
        /\ LET remotesOutput == executeGitCommand(r[1], r[2])
           IN  IF NoRemotes(remotesOutput)
               THEN Return("No remotes found. Add a remote first.")
                    /\ UNCHANGED remotes
               ELSE /\ remotes' = Split(TrimSpace(remotesOutput))
                    /\ pc' = "PushForm"
                    /\ output' = output
    /\ UNCHANGED <<menuIndex, quit, lastKey, action, forms, formRun,
                   cmdsAtCancel, remoteName, remoteURL, addResult, files,
                   selectedOptions, commitMessage, currentBranch,
                   selectedRemote, branchName, setUpstream, result>>

\* Push to Remote: the form (select over the remotes, branch input, confirm).
PushForm ==
    /\ pc = "PushForm"
    /\ \E formErr \in FormErrors, i \in 1..Len(remotes),
          typed \in BranchInputs, upstream \in BOOLEAN :
        /\ Ran(formErr)
        /\ IF FormOk(formErr)
           THEN /\ selectedRemote' = remotes[i]
                /\ typedBranch' = typed
                /\ branchName' = TargetBranch(typed, currentBranch)
                /\ setUpstream' = upstream
                /\ pc' = "PushExec"
                /\ output' = output
           ELSE /\ UNCHANGED <<selectedRemote, branchName, setUpstream,
                                typedBranch>>
                /\ Return(CancelText(action))
    /\ UNCHANGED <<menuIndex, quit, lastKey, action, cmds, errs, outs,
                   remoteName, remoteURL, addResult, files, selectedOptions,
                   commitMessage, currentBranch, remotes, result>>

\* Push to Remote: `git push` and the classification of its text.
PushExec ==
    /\ pc = "PushExec"
    /\ UNCHANGED typedBranch
    /\ \E r \in GitResults :
        /\ Invoke(PushArgs(setUpstream, selectedRemote, branchName), r[1], r[2])
        /\ result' = executeGitCommand(r[1], r[2])
        /\ IF HasMarker(result')
           THEN Return("Push failed: " \o result')
           ELSE Return("Successfully pushed to " \o selectedRemote \o "/"
                       \o branchName \o "\n\n" \o result')
    /\ UNCHANGED <<menuIndex, quit, lastKey, action, forms, formRun,
                   cmdsAtCancel, remoteName, remoteURL, addResult, files,
                   selectedOptions, commitMessage, currentBranch, remotes,
                   selectedRemote, branchName, setUpstream>>

-----------------------------------------------------------------------------
Next ==
    \/ KeyQ
    \/ KeyUp
    \/ KeyDown
    \/ KeyOther
    \/ KeyEnter
    \/ Fixed
    \/ AddRemoteForm
    \/ AddRemoteAdd
    \/ AddRemoteList
    \/ StageStatus
    \/ StageForm
    \/ StageAdd
    \/ CommitForm
    \/ CommitExec
    \/ PushBranch
    \/ PushRemotes
    \/ PushForm
    \/ PushExec

Spec == Init /\ [][Next]_vars

-----------------------------------------------------------------------------
(* The status parser on its own: every status text of at most MaxStatusLen *)
(* characters over StatusChars, with every outcome of the invocation.      *)

RECURSIVE TextsUpTo(_)
TextsUpTo(n) ==
    IF n = 0 THEN {""}
    ELSE LET S == TextsUpTo(n - 1)
         IN  S \cup {t \o c : t \in S, c \in StatusChars}

InitParse ==
    /\ menuIndex = 2
    /\ output = ""
    /\ quit = FALSE
    /\ lastKey = "enter"
    /\ pc = "Parse"
    /\ action = "Stage Changes"
    /\ cmds = << <<"status", "--porcelain">> >>
    /\ forms = 0
    /\ formRun = "none"
    /\ cmdsAtCancel = -1
    /\ \E r \in Results(TextsUpTo(MaxStatusLen)) :
        /\ errs = <<r[1]>>
        /\ outs = <<r[2]>>
    /\ remoteName = ""
    /\ remoteURL = ""
    /\ addResult = ""
    /\ files = <<>>
    /\ selectedOptions = <<>>
    /\ commitMessage = ""
    /\ currentBranch = ""
    /\ remotes = <<>>
    /\ selectedRemote = ""
    /\ branchName = ""
    /\ setUpstream = FALSE
    /\ result = ""
    /\ typedBranch = ""

ParseStatus ==
    /\ pc = "Parse"
    /\ files' = getUnstagedFiles(errs[1], outs[1])
    /\ pc' = "Parsed"
    /\ UNCHANGED <<menuIndex, output, quit, lastKey, dispatchVars,
                   remoteName, remoteURL, addResult, selectedOptions,
                   commitMessage, currentBranch, remotes, selectedRemote,
                   branchName, setUpstream, result>>

NextParse == ParseStatus

ParseSpec == InitParse /\ [][NextParse]_vars

-----------------------------------------------------------------------------
(* Properties.                                                             *)

Range(s) == {s[i] : i \in 1..Len(s)}

\* The invocations of the dispatch whose first arguments are prefix.
Issued(prefix) ==
    {i \in 1..Len(cmds) :
        /\ Len(cmds[i]) >= Len(prefix)
        /\ SubSeq(cmds[i], 1, Len(prefix)) = prefix}

\* The dispatch of act has returned.
Done(act) == pc = "idle" /\ action = act

FormActions == {"Add Remote", "Stage Changes", "Commit Changes", "Push to Remote"}

\* C1: when the user cancels the form of Add Remote, Stage Changes, Commit
\* Changes or Push to Remote, the displayed output after the Enter key has
\* been handled equals the displayed output before it.
C1_CancelKeepsOutput ==
    [][(pc # "idle" /\ pc' = "idle" /\ action \in FormActions
        /\ formRun' = "cancelled") => output' = output]_vars

\* C2: in a dispatch whose form the user cancels, no git command is invoked
\* after the cancellation, and none of `remote add`, `add`, `commit`, `push`
\* is invoked in that dispatch at all.
C2_NoCommandAfterCancel ==
    (action \in FormActions /\ formRun = "cancelled") =>
        /\ pc = "idle"
        /\ Len(cmds) = cmdsAtCancel
        /\ Issued(<<"remote", "add">>) = {}
        /\ Issued(<<"add">>) = {}
        /\ Issued(<<"commit">>) = {}
        /\ Issued(<<"push">>) = {}

\* A push dispatch cancelled at its form, after the branch query and the
\* remote listing ran.
C2_Witness ==
    /\ Done("Push to Remote")
    /\ formRun = "cancelled"
    /\ Len(cmds) = 2

\* C3 as stated: in Stage Changes, whenever the completed selection contains
\* "deselect_all", no `add` is issued and the result is "No files staged.".
C3_DeselectAllAlways ==
    (Done("Stage Changes") /\ formRun = "completed"
     /\ "deselect_all" \in Range(selectedOptions)) =>
        /\ Issued(<<"add">>) = {}
        /\ output = "No files staged."

\* C3 amended: in Stage Changes, whenever the completed selection contains
\* "deselect_all" with no "select_all" before it, no `add` is issued and the
\* result is "No files staged.".
C3_DeselectAllFirst ==
    (Done("Stage Changes") /\ formRun = "completed"
     /\ \E i \in 1..Len(selectedOptions) :
            /\ selectedOptions[i] = "deselect_all"
            /\ \A j \in 1..(i - 1) : selectedOptions[j] # "select_all") =>
        /\ Issued(<<"add">>) = {}
        /\ output = "No files staged."

\* "deselect_all" selected after an ordinary path.
C3_Witness ==
    /\ Done("Stage Changes")
    /\ formRun = "completed"
    /\ selectedOptions = <<"a", "deselect_all">>
    /\ output = "No files staged."

\* C4 as stated: in Stage Changes, whenever the completed selection contains
\* "select_all", exactly one `add` is issued and its paths are the candidate
\* list of the status parser, in order.
C4_SelectAllAlways ==
    (Done("Stage Changes") /\ formRun = "completed"
     /\ "select_all" \in Range(selectedOptions)) =>
        /\ Cardinality(Issued(<<"add">>)) = 1
        /\ cmds[Len(cmds)] = <<"add">> \o files

\* C4 amended: in Stage Changes, whenever the completed selection contains
\* "select_all" with no "deselect_all" before it, exactly one `add` is issued
\* and its paths are the candidate list of the status parser, in order.
C4_SelectAllFirst ==
    (Done("Stage Changes") /\ formRun = "completed"
     /\ \E i \in 1..Len(selectedOptions) :
            /\ selectedOptions[i] = "select_all"
            /\ \A j \in 1..(i - 1) : selectedOptions[j] # "deselect_all") =>
        /\ Cardinality(Issued(<<"add">>)) = 1
        /\ cmds[Len(cmds)] = <<"add">> \o files

\* Only "select_all" selected among two candidates: both are staged.
C4_Witness ==
    /\ Done("Stage Changes")
    /\ formRun = "completed"
    /\ files = <<"a", "select_all">>
    /\ selectedOptions = <<"select_all">>
    /\ cmds[Len(cmds)] = <<"add", "a", "select_all">>

\* C5: in Add Remote, if the form completes with the remote name or the
\* remote URL empty, no command is invoked and the result is exactly
\* "Remote name and URL cannot be empty.".
C5_EmptyFieldNoCommand ==
    (action = "Add Remote" /\ formRun = "completed"
     /\ (remoteName = "" \/ remoteURL = "")) =>
        /\ pc = "idle"
        /\ cmds = <<>>
        /\ output = "Remote name and URL cannot be empty."

\* The form completed with a name and without a URL.
C5_Witness ==
    /\ Done("Add Remote")
    /\ formRun = "completed"
    /\ remoteName = "origin"
    /\ remoteURL = ""

\* C6: in Push to Remote, if `rev-parse --abbrev-ref HEAD` returns empty
\* text, the dispatch returns the branch failure message, issues neither
\* `remote` nor `push`, and presents no form.
C6_EmptyBranchShortCircuits ==
    (action = "Push to Remote" /\ Len(cmds) >= 1
     /\ errs[1] = Nil /\ outs[1] = "") =>
        /\ pc = "idle"
        /\ output = "Failed to get current branch."
        /\ cmds = << <<"rev-parse", "--abbrev-ref", "HEAD">> >>
        /\ forms = 0

\* The branch query exited with status 0 and printed nothing.
C6_Witness ==
    /\ Done("Push to Remote")
    /\ cmds = << <<"rev-parse", "--abbrev-ref", "HEAD">> >>
    /\ errs = <<Nil>>
    /\ outs = <<"">>

\* C7: in Push to Remote, whenever the branch query fails (cannot be
\* launched or exits non-zero, whatever it prints), the dispatch returns
\* "Failed to get current branch." and issues no `push`.
C7_BranchQueryFailure ==
    (Done("Push to Remote") /\ Len(cmds) >= 1 /\ errs[1] # Nil) =>
        /\ output = "Failed to get current branch."
        /\ Issued(<<"push">>) = {}

\* The text captured from an invocation carries a failure marker.
Marked(text) == Contains(text, "error") \/ Contains(text, "fatal")

\* C8: in Add Remote and Push to Remote, the result starts with "Failed to
\* add remote: " resp. "Push failed: " if and only if the invocation exited
\* non-zero or its captured text contains "error" or "fatal".
C8_FailureIffExitOrMarker ==
    /\ (Done("Add Remote") /\ Issued(<<"remote", "add">>) = {1}) =>
           (HasPrefix(output, "Failed to add remote: ")
               <=> (errs[1] # Nil \/ Marked(outs[1])))
    /\ (Done("Push to Remote") /\ Issued(<<"push">>) = {3}) =>
           (HasPrefix(output, "Push failed: ")
               <=> (errs[3] # Nil \/ Marked(outs[3])))

\* C9: in Add Remote and Push to Remote, whenever the text returned by the
\* `remote add` resp. `push` invocation contains "fatal", the result is a
\* failure message, also when the exit status was zero.
C9_FatalIsFailure ==
    /\ (action = "Add Remote" /\ Issued(<<"remote", "add">>) = {1}
        /\ Contains(addResult, "fatal")) =>
           (pc = "idle" /\ HasPrefix(output, "Failed to add remote: "))
    /\ (action = "Push to Remote" /\ Issued(<<"push">>) = {3}
        /\ Contains(result, "fatal")) =>
           (pc = "idle" /\ HasPrefix(output, "Push failed: "))

\* A push that exited with status 0 and printed "fatal".
C9_Witness ==
    /\ Done("Push to Remote")
    /\ Issued(<<"push">>) = {3}
    /\ errs[3] = Nil
    /\ Contains(outs[3], "fatal")
    /\ HasPrefix(output, "Push failed: ")

\* The positions of a status text where a line starts, and the position
\* just after the line that starts at s.
LineStarts(text) ==
    {1} \cup {i + 1 : i \in {k \in 1..Len(text) : SubSeq(text, k, k) = "\n"}}

LineEnd(text, s) ==
    CHOOSE e \in s..(Len(text) + 1) :
        /\ e = Len(text) + 1 \/ SubSeq(text, e, e) = "\n"
        /\ \A k \in s..(e - 1) : SubSeq(text, k, k) # "\n"

LongLines(text) == {s \in LineStarts(text) : LineEnd(text, s) - s > 3}

\* C10: for every status text of a successful status invocation,
\* getUnstagedFiles returns exactly the lines longer than three characters,
\* each without its first three characters, in their order; shorter lines
\* contribute nothing.
C10_ParserKeepsLongLines ==
    (pc = "Parsed" /\ errs[1] = Nil) =>
        LET text == outs[1]
            long == LongLines(text)
        IN  /\ Len(files) = Cardinality(long)
            /\ \A s \in long :
                   files[Cardinality({t \in long : t <= s})]
                       = SubSeq(text, s + 3, LineEnd(text, s) - 1)

\* A short line is skipped and a long one is kept.
C10_Witness ==
    /\ pc = "Parsed"
    /\ errs[1] = Nil
    /\ outs[1] = "ab\nabab\n"
    /\ files = <<"b">>

\* The actions without input, each with the argument list it is to issue.
NoInputCommands ==
    { <<"Initialize Repository", <<"init">> >>,
      <<"Pull from Remote", <<"pull">> >>,
      <<"Show Status", <<"status">> >>,
      <<"Show Branch", <<"branch">> >>,
      <<"Show Log", <<"log", "--oneline">> >>,
      <<"View Diff", <<"diff">> >>,
      <<"Merge Branch", <<"merge", "main">> >> }

\* C11: a dispatch of Initialize Repository, Pull from Remote, Show Status,
\* Show Branch, Show Log, View Diff or Merge Branch issues exactly one
\* command, with that action's fixed argument list, presents no form and
\* returns the executor's text as it is, whether the command failed or not.
C11_FixedCommandVerbatim ==
    \A e \in NoInputCommands :
        (action = e[1]) =>
            /\ forms = 0
            /\ formRun = "none"
            /\ pc # "idle" => cmds = <<>>
            /\ pc = "idle" =>
                   /\ cmds = <<e[2]>>
                   /\ output = executeGitCommand(errs[1], outs[1])

\* Show Log whose command exited non-zero.
C11_Witness ==
    /\ Done("Show Log")
    /\ cmds = << <<"log", "--oneline">> >>
    /\ errs = <<ExitError>>
    /\ output = "Error: exit status 1\nfatal: no\n"

C13_QuitOnlyOnQ ==
    /\ quit <=> lastKey = "q"
    /\ (pc = "idle" /\ lastKey # "q") => (ENABLED KeyOther /\ ENABLED KeyEnter)

\* A key was handled after a dispatch in which git could not be launched.
C13_Witness ==
    /\ ~quit
    /\ lastKey = "down"
    /\ Done("Show Log")
    /\ errs = <<LaunchError>>

\* s ends with suffix.
HasSuffix(s, suffix) ==
    /\ Len(s) >= Len(suffix)
    /\ SubSeq(s, Len(s) - Len(suffix) + 1, Len(s)) = suffix

\* C14: in Add Remote, `remote -v` is issued only after a `remote add` of
\* the same dispatch whose result was classified as success; it is then
\* issued exactly once and its text is appended to the success message.
\* When `remote add` is classified as failed or is not issued, `remote -v`
\* is never issued.
C14_ListAfterSuccessfulAdd ==
    (action = "Add Remote") =>
        LET adds == Issued(<<"remote", "add">>)
            lists == Issued(<<"remote", "-v">>)
        IN  /\ lists \subseteq {2}
            /\ (2 \in lists) =>
                   /\ adds = {1}
                   /\ ~Marked(addResult)
                   /\ pc = "idle"
                   /\ Len(cmds) = 2
                   /\ HasPrefix(output, "Remote added successfully: ")
                   /\ HasSuffix(output, "All remotes:\n"
                          \o executeGitCommand(errs[2], outs[2]))
            /\ (pc = "idle" /\ adds = {1} /\ ~Marked(addResult)) => lists = {2}
            /\ (adds = {} \/ Marked(addResult)) => lists = {}

\* `remote add` succeeded and the listing printed one remote.
C14_Witness ==
    /\ Done("Add Remote")
    /\ cmds = << <<"remote", "add", "origin", "u">>, <<"remote", "-v">> >>
    /\ errs = <<Nil, Nil>>
    /\ outs[2] = "origin\n"
    /\ HasSuffix(output, "All remotes:\norigin\n")

\* C15: in Push to Remote, when the form completes with remote r, branch
\* text b and confirm value u, exactly one push command is issued, with
\* arguments `push`, `--set-upstream` if and only if u, r, and the target
\* branch: b if b is not empty, the resolved current branch otherwise.
C15_PushArguments ==
    (action = "Push to Remote" /\ formRun = "completed") =>
        LET target == IF typedBranch # "" THEN typedBranch ELSE currentBranch
            expected == IF setUpstream
                        THEN <<"push", "--set-upstream", selectedRemote, target>>
                        ELSE <<"push", selectedRemote, target>>
        IN  /\ pc # "idle" => Issued(<<"push">>) = {}
            /\ pc = "idle" =>
                   /\ Issued(<<"push">>) = {3}
                   /\ Len(cmds) = 3
                   /\ cmds[3] = expected

\* The branch input left blank, upstream confirmed: the current branch is
\* pushed with --set-upstream.
C15_Witness ==
    /\ Done("Push to Remote")
    /\ formRun = "completed"
    /\ typedBranch = ""
    /\ setUpstream
    /\ currentBranch = "ok"
    /\ cmds[3] = <<"push", "--set-upstream", "fork", "ok">>

\* C16: in Push to Remote, after a successful branch resolution, if the
\* remote listing yields no configured remotes (it exits with status 0 and
\* prints nothing), the dispatch returns "No remotes found. Add a remote
\* first.", presents no form and issues no push; the commands of a push
\* dispatch are always issued in the order branch query, remote listing,
\* push.
C16_NoRemotesShortCircuits ==
    (action = "Push to Remote") =>
        /\ (Len(cmds) >= 2 /\ errs[2] = Nil /\ outs[2] = "") =>
               /\ pc = "idle"
               /\ output = "No remotes found. Add a remote first."
               /\ forms = 0
               /\ Len(cmds) = 2
        /\ Len(cmds) <= 3
        /\ Len(cmds) >= 1 => cmds[1] = <<"rev-parse", "--abbrev-ref", "HEAD">>
        /\ Len(cmds) >= 2 => cmds[2] = <<"remote">>
        /\ Len(cmds) >= 3 => cmds[3][1] = "push"

\* The branch was resolved and no remote is configured.
C16_Witness ==
    /\ Done("Push to Remote")
    /\ errs = <<Nil, Nil>>
    /\ outs = <<"ok\n", "">>
    /\ output = "No remotes found. Add a remote first."

\* The paths that the status text of the dispatch reports as changed.
ReportedPaths ==
    {SubSeq(outs[1], s + 3, LineEnd(outs[1], s) - 1) : s \in LongLines(outs[1])}

\* C17: in every Stage Changes dispatch, one whose status invocation failed
\* included, every path argument of every `add` issued is one of the paths
\* that the status output of that dispatch reported as changed; when the
\* status yields no changed files the dispatch returns "No unstaged changes
\* found." and issues no `add`.
C17_AddOnlyReportedPaths ==
    (action = "Stage Changes" /\ Len(cmds) >= 1) =>
        /\ \A i \in Issued(<<"add">>) :
               \A k \in 2..Len(cmds[i]) : cmds[i][k] \in ReportedPaths
        /\ (pc = "idle" /\ errs[1] = Nil /\ ReportedPaths = {}) =>
               /\ output = "No unstaged changes found."
               /\ Issued(<<"add">>) = {}

\* C18: handling "up", "down" or any other key than Enter leaves the
\* displayed output unchanged and issues no git command, and handling Enter
\* (the whole dispatch) leaves the menu cursor unchanged.
C18_OnlyDispatchWritesOutput ==
    [][/\ (pc = "idle" /\ lastKey' \in {"up", "down", "other", "q"}) =>
              (output' = output /\ cmds' = cmds /\ pc' = "idle")
       /\ (pc # "idle" \/ lastKey' = "enter") => menuIndex' = menuIndex]_vars

\* Show Log was dispatched at index 8 and printed "ok"; "down" then moved
\* the cursor and the text is still displayed.
C18_Witness ==
    /\ Done("Show Log")
    /\ output = "ok\n"
    /\ lastKey = "down"
    /\ menuIndex = 9

\* C19: the menu cursor always satisfies 0 <= menuIndex <= 10, so the action
\* dispatched on Enter is one of the eleven menu entries; "up" at index 0
\* and "down" at index 10 leave the cursor unchanged.
C19_CursorInRange ==
    [][/\ menuIndex \in 0..10
       /\ menuIndex' \in 0..10
       /\ (pc = "idle" /\ lastKey' = "enter") =>
              (Len(menuOptions) = 11 /\ action' = menuOptions[menuIndex + 1])
       /\ (pc = "idle" /\ lastKey' = "up" /\ menuIndex = 0) => menuIndex' = 0
       /\ (pc = "idle" /\ lastKey' = "down" /\ menuIndex = 10) =>
              menuIndex' = 10]_vars

\* View Diff was dispatched at index 10 and "down" was pressed after it.
C19_Witness ==
    /\ Done("View Diff")
    /\ menuIndex = 10
    /\ lastKey = "down"

====
